---- MODULE Spec2Model ----
(***************************************************************************)
(* Model of the bestbuy2 inventory: products.py (Product,                  *)
(* NonStockedProduct, LimitedProduct), promotions.py and store.py.         *)
(* Objects are records held in slots; every method is a                   *)
(* pure operator from the receiver (and arguments) to the receiver after   *)
(* the call, the returned value and the raised error; every action applies *)
(* one whole method call to the state.                                     *)
(*                                                                         *)
(* Money is counted in cents, prices are multiples of 100 cents, so that   *)
(* the half price and the percentage of promotions.py are exact.           *)
(***************************************************************************)
EXTENDS Integers, Sequences, FiniteSets, TLC

\* ---------------------------------------------------------------- bounds
MaxQty == 2          \* largest stock level and largest quantity argument
MaxItems == 2        \* longest shopping list handed to Store.order

\* ------------------------------------------------------------ catalogue
\* Three objects, one of each class of products.py.
Slots == {1, 2, 3}
NotAProduct == 0     \* a value that is not an instance of products.Product

ClassOf(s) ==
    CASE s = 1 -> "Product"
      [] s = 2 -> "LimitedProduct"
      [] s = 3 -> "NonStockedProduct"

NameOf(s) ==
    CASE s = 1 -> "A"
      [] s = 2 -> "B"
      [] s = 3 -> "C"

PriceOf(s) ==
    CASE s = 1 -> 1000
      [] s = 2 -> 200
      [] s = 3 -> 500

Maxima == {1, 2}                     \* LimitedProduct maximum per purchase
QtyArgs == (0 - 1) .. (MaxQty + 1)   \* quantity arguments of buy / set_quantity
PromotionKinds == {"PercentDiscount", "SecondHalfPrice", "ThirdOneFree"}
Percent == 30                        \* percent of the PercentDiscount instance
NoPromotion == "None"
NoAttr == 0                          \* attribute the class does not define
NoRet == 0 - 1                       \* the call raised, nothing was returned

\* products: the Product objects (name, price, quantity, active, ...) by slot
\* last: the most recent call, its arguments and its outcome
VARIABLES products, last, store
vars == <<products, last, store>>

\* ---------------------------------------------------------------- errors
NoErr == [type |-> "none", msg |-> "none", name |-> "", cause |-> "none"]
Err(type, msg) == [type |-> type, msg |-> msg, name |-> "", cause |-> "none"]

NoObj == [cls |-> "none", name |-> "", price |-> 0, quantity |-> 0,
          active |-> FALSE, maximum |-> NoAttr, promotion |-> NoPromotion]

\* result of a method call: receiver afterwards, returned value, raised error
Ok(self, ret) == [self |-> self, ret |-> ret, err |-> NoErr]
Raise(self, e) == [self |-> self, ret |-> NoRet, err |-> e]

\* ------------------------------------------------------------ products.py
\* Product.__init__ without the check of its quantity
Product_init_any_quantity(name, price, quantity) ==
    IF name = "" THEN Raise(NoObj, Err("ValueError", "empty_name"))
    ELSE IF price < 0 THEN Raise(NoObj, Err("ValueError", "negative_price"))
    ELSE Ok([cls |-> "Product", name |-> name, price |-> price,
             quantity |-> quantity, active |-> (quantity > 0),
             maximum |-> NoAttr, promotion |-> NoPromotion], NoRet)

Product_init(name, price, quantity) ==
    IF name = "" THEN Raise(NoObj, Err("ValueError", "empty_name"))
    ELSE IF price < 0 THEN Raise(NoObj, Err("ValueError", "negative_price"))
    ELSE IF quantity < 0 THEN Raise(NoObj, Err("ValueError", "negative_quantity"))
    ELSE Ok([cls |-> "Product", name |-> name, price |-> price,
             quantity |-> quantity, active |-> (quantity > 0),
             maximum |-> NoAttr, promotion |-> NoPromotion], NoRet)

NonStockedProduct_init(name, price) ==
    LET r == Product_init(name, price, 0) IN
    IF r.err # NoErr THEN r
    ELSE Ok([r.self EXCEPT !.cls = "NonStockedProduct", !.active = TRUE], NoRet)

LimitedProduct_init(name, price, quantity, maximum) ==
    LET r == Product_init(name, price, quantity) IN
    IF r.err # NoErr THEN r
    ELSE IF maximum <= 0 THEN Raise(NoObj, Err("ValueError", "maximum_not_positive"))
    ELSE Ok([r.self EXCEPT !.cls = "LimitedProduct", !.maximum = maximum], NoRet)

get_quantity(self) == self.quantity

\* set_quantity without the check of its argument
Product_set_quantity_unchecked(self, quantity) ==
    Ok([self EXCEPT !.quantity = quantity, !.active = (quantity > 0)], NoRet)

\* set_quantity that leaves the active flag as it was
Product_set_quantity_stale_active(self, quantity) ==
    IF quantity < 0 THEN Raise(self, Err("ValueError", "negative_quantity"))
    ELSE Ok([self EXCEPT !.quantity = quantity], NoRet)

\* set_quantity that takes a negative argument for 0 instead of raising
Product_set_quantity_clamped(self, quantity) ==
    IF quantity < 0 THEN Ok([self EXCEPT !.quantity = 0, !.active = FALSE], NoRet)
    ELSE Ok([self EXCEPT !.quantity = quantity, !.active = (quantity > 0)], NoRet)

Product_set_quantity(self, quantity) ==
    IF quantity < 0 THEN Raise(self, Err("ValueError", "negative_quantity"))
    ELSE Ok([self EXCEPT !.quantity = quantity, !.active = (quantity > 0)], NoRet)

\* NonStockedProduct without its override of set_quantity
NonStockedProduct_set_quantity_inherited(self, quantity) ==
    IF quantity < 0 THEN Raise(self, Err("ValueError", "negative_quantity"))
    ELSE Ok([self EXCEPT !.quantity = quantity, !.active = (quantity > 0)], NoRet)

NonStockedProduct_set_quantity(self, quantity) == Ok(self, NoRet)

\* self.set_quantity(...): dispatch on the class of the receiver
set_quantity(self, quantity) ==
    IF self.cls = "NonStockedProduct"
    THEN NonStockedProduct_set_quantity(self, quantity)
    ELSE Product_set_quantity(self, quantity)

\* product.quantity = n: quantity is a plain instance attribute (assigned in
\* __init__), so the assignment stores n and runs no code of the class
assign_quantity(self, n) == Ok([self EXCEPT !.quantity = n], NoRet)

is_active(self) == self.active

activate(self) == Ok([self EXCEPT !.active = TRUE], NoRet)

deactivate(self) == Ok([self EXCEPT !.active = FALSE], NoRet)

\* buy that sells what is left when the stock does not cover the request
Product_buy_partial(self, quantity) ==
    IF quantity <= 0 THEN Raise(self, Err("ValueError", "quantity_not_positive"))
    ELSE IF ~is_active(self) THEN Raise(self, Err("Exception", "inactive"))
    ELSE LET sold == IF self.quantity < quantity THEN self.quantity ELSE quantity
             r == set_quantity(self, self.quantity - sold)
         IN IF r.err # NoErr THEN r ELSE Ok(r.self, self.price * sold)

\* buy that looks at the stock before it looks at the active flag
Product_buy_stock_first(self, quantity) ==
    IF quantity <= 0 THEN Raise(self, Err("ValueError", "quantity_not_positive"))
    ELSE IF self.quantity < quantity
    THEN Raise(self, Err("Exception", "not_enough_stock"))
    ELSE IF ~is_active(self) THEN Raise(self, Err("Exception", "inactive"))
    ELSE LET total_price == self.price * quantity
             new_quantity == self.quantity - quantity
             r == set_quantity(self, new_quantity)
         IN IF r.err # NoErr THEN r ELSE Ok(r.self, total_price)

Product_buy(self, quantity) ==
    IF quantity <= 0 THEN Raise(self, Err("ValueError", "quantity_not_positive"))
    ELSE IF ~is_active(self) THEN Raise(self, Err("Exception", "inactive"))
    ELSE IF self.quantity < quantity
    THEN Raise(self, Err("Exception", "not_enough_stock"))
    ELSE LET total_price == self.price * quantity
             new_quantity == self.quantity - quantity
             r == set_quantity(self, new_quantity)
         IN IF r.err # NoErr THEN r ELSE Ok(r.self, total_price)

\* NonStockedProduct.buy with the active check of Product.buy
NonStockedProduct_buy_checks_active(self, quantity) ==
    IF quantity <= 0 THEN Raise(self, Err("ValueError", "quantity_not_positive"))
    ELSE IF ~is_active(self) THEN Raise(self, Err("Exception", "inactive"))
    ELSE Ok(self, self.price * quantity)

\* NonStockedProduct.buy that takes the quantity bought from the stock
NonStockedProduct_buy_from_stock(self, quantity) ==
    IF quantity <= 0 THEN Raise(self, Err("ValueError", "quantity_not_positive"))
    ELSE Ok([self EXCEPT !.quantity = @ - quantity], self.price * quantity)

NonStockedProduct_buy(self, quantity) ==
    IF quantity <= 0 THEN Raise(self, Err("ValueError", "quantity_not_positive"))
    ELSE Ok(self, self.price * quantity)

\* buy that checks the purchase limit only after the active flag
LimitedProduct_buy_limit_last(self, quantity) ==
    IF quantity <= 0 THEN Raise(self, Err("ValueError", "quantity_not_positive"))
    ELSE IF ~is_active(self) THEN Raise(self, Err("Exception", "inactive"))
    ELSE IF quantity > self.maximum
    THEN Raise(self, Err("Exception", "maximum_exceeded"))
    ELSE Product_buy(self, quantity)

LimitedProduct_buy(self, quantity) ==
    IF quantity <= 0 THEN Raise(self, Err("ValueError", "quantity_not_positive"))
    ELSE IF quantity > self.maximum
    THEN Raise(self, Err("Exception", "maximum_exceeded"))
    ELSE Product_buy(self, quantity)

\* product.buy(...): dispatch on the class of the receiver
buy(self, quantity) ==
    CASE self.cls = "NonStockedProduct" -> NonStockedProduct_buy(self, quantity)
      [] self.cls = "LimitedProduct" -> LimitedProduct_buy(self, quantity)
      [] OTHER -> Product_buy(self, quantity)

\* ---------------------------------------------------------- promotions.py
\* a promotion object: its class, its name and, for PercentDiscount, its percent
NoPromotionObject == [cls |-> "none", name |-> "", percent |-> NoAttr]

Promotion_init(cls, name) ==
    IF name = "" THEN Raise(NoPromotionObject, Err("ValueError", "empty_name"))
    ELSE Ok([cls |-> cls, name |-> name, percent |-> NoAttr], NoRet)

PercentDiscount_init(name, percent) ==
    LET r == Promotion_init("PercentDiscount", name) IN
    IF r.err # NoErr THEN r
    ELSE IF ~(0 <= percent /\ percent <= 100)
    THEN Raise(NoPromotionObject, Err("ValueError", "percent_out_of_range"))
    ELSE Ok([r.self EXCEPT !.percent = percent], NoRet)

SecondHalfPrice_init(name) == Promotion_init("SecondHalfPrice", name)

ThirdOneFree_init(name) == Promotion_init("ThirdOneFree", name)

\* the three promotions main.py creates, by the name of their class
Instance(cls) ==
    CASE cls = "PercentDiscount" -> PercentDiscount_init("30% off!", Percent).self
      [] cls = "SecondHalfPrice" -> SecondHalfPrice_init("Second Half price!").self
      [] cls = "ThirdOneFree" -> ThirdOneFree_init("Third One Free!").self

\* apply_promotion(product, quantity) of the three Promotion classes, in cents
PercentDiscount_apply_promotion(self, product, quantity) ==
    (product.price * quantity * (100 - self.percent)) \div 100

\* the second, fourth, ... item at half price, with the count of half price
\* items rounded up
SecondHalfPrice_apply_promotion_half_rounded_up(product, quantity) ==
    LET full_price_items == (quantity + 1) \div 2
        half_price_items == (quantity + 1) \div 2
    IN (full_price_items * product.price) + ((half_price_items * product.price) \div 2)

SecondHalfPrice_apply_promotion(product, quantity) ==
    LET full_price_items == (quantity + 1) \div 2
        half_price_items == quantity \div 2
    IN (full_price_items * product.price) + ((half_price_items * product.price) \div 2)

\* every third item free, with the count of free items rounded up
ThirdOneFree_apply_promotion_free_rounded_up(product, quantity) ==
    LET free_items == (quantity + 2) \div 3
        paid_items == quantity - free_items
    IN paid_items * product.price

ThirdOneFree_apply_promotion(product, quantity) ==
    LET free_items == quantity \div 3
        paid_items == quantity - free_items
    IN paid_items * product.price

apply_promotion(promotion, product, quantity) ==
    CASE promotion.cls = "PercentDiscount" ->
             PercentDiscount_apply_promotion(promotion, product, quantity)
      [] promotion.cls = "SecondHalfPrice" -> SecondHalfPrice_apply_promotion(product, quantity)
      [] promotion.cls = "ThirdOneFree" -> ThirdOneFree_apply_promotion(product, quantity)

\* Product.set_promotion is called by main.py but defined nowhere in the
\* sources; it is modelled from the specification (setPromotion(p)).
set_promotion(self, promotion) ==
    IF promotion \notin PromotionKinds \cup {NoPromotion}
    THEN Raise(self, Err("TypeError", "not_a_promotion"))
    ELSE Ok([self EXCEPT !.promotion = promotion], NoRet)

\* --------------------------------------------------------------- store.py
\* An element of a shopping list: a 2-tuple (product, quantity) or not,
\* its first element a Product (a slot) or not, its second an int or not.
Item(p, q) == [is_pair |-> TRUE, product |-> p, qty_is_int |-> TRUE, quantity |-> q]
NotAPair == [is_pair |-> FALSE, product |-> NotAProduct, qty_is_int |-> TRUE, quantity |-> 1]
NoProductItem == Item(NotAProduct, 1)
NonIntQtyItem == [is_pair |-> TRUE, product |-> 1, qty_is_int |-> FALSE, quantity |-> 1]

\* well-formed items, as the menu of main.py builds them (lines 79-84)
Items == {Item(1, 1), Item(1, 2), Item(2, 2), Item(3, 1)}
\* items that Store.order rejects before it calls buy
BadItems == {NotAPair, NoProductItem, NonIntQtyItem, Item(1, 0)}

ListsOver(items) == UNION {[1 .. n -> items] : n \in 0 .. MaxItems}
ShoppingLists == ListsOver(Items)
AnyLists == ListsOver(Items \cup BadItems)

OrderResult(prods, ret, err, at) ==
    [products |-> prods, ret |-> ret, err |-> err, at |-> at]

\* the loop with  total_order_price = item_total_price  for  +=
RECURSIVE order_loop_last_price(_, _, _, _)
order_loop_last_price(prods, shopping_list, i, total_order_price) ==
    IF i > Len(shopping_list) THEN OrderResult(prods, total_order_price, NoErr, 0)
    ELSE LET item == shopping_list[i] IN
         IF ~item.is_pair
         THEN OrderResult(prods, NoRet, Err("ValueError", "item_not_a_pair"), i)
         ELSE IF item.product = NotAProduct
         THEN OrderResult(prods, NoRet, Err("TypeError", "not_a_product"), i)
         ELSE IF ~item.qty_is_int \/ item.quantity <= 0
         THEN OrderResult(prods, NoRet, Err("ValueError", "quantity_not_positive_int"), i)
         ELSE LET r == buy(prods[item.product], item.quantity)
                  after == [prods EXCEPT ![item.product] = r.self]
              IN IF r.err # NoErr
                 THEN OrderResult(after, NoRet,
                                  [type |-> "Exception", msg |-> "order_failed",
                                   name |-> prods[item.product].name,
                                   cause |-> r.err.msg], i)
                 ELSE order_loop_last_price(after, shopping_list, i + 1, r.ret)

\* the loop with every item bought from the stock as it was at the call
RECURSIVE order_loop_stock_kept(_, _, _, _)
order_loop_stock_kept(prods, shopping_list, i, total_order_price) ==
    IF i > Len(shopping_list) THEN OrderResult(prods, total_order_price, NoErr, 0)
    ELSE LET item == shopping_list[i] IN
         IF ~item.is_pair
         THEN OrderResult(prods, NoRet, Err("ValueError", "item_not_a_pair"), i)
         ELSE IF item.product = NotAProduct
         THEN OrderResult(prods, NoRet, Err("TypeError", "not_a_product"), i)
         ELSE IF ~item.qty_is_int \/ item.quantity <= 0
         THEN OrderResult(prods, NoRet, Err("ValueError", "quantity_not_positive_int"), i)
         ELSE LET r == buy(prods[item.product], item.quantity) IN
              IF r.err # NoErr
              THEN OrderResult(prods, NoRet,
                               [type |-> "Exception", msg |-> "order_failed",
                                name |-> prods[item.product].name,
                                cause |-> r.err.msg], i)
              ELSE order_loop_stock_kept(prods, shopping_list, i + 1,
                                         total_order_price + r.ret)

\* the for loop of Store.order from item i on, total_order_price so far
RECURSIVE order_loop(_, _, _, _)
order_loop(prods, shopping_list, i, total_order_price) ==
    IF i > Len(shopping_list) THEN OrderResult(prods, total_order_price, NoErr, 0)
    ELSE LET item == shopping_list[i] IN
         IF ~item.is_pair
         THEN OrderResult(prods, NoRet, Err("ValueError", "item_not_a_pair"), i)
         ELSE IF item.product = NotAProduct
         THEN OrderResult(prods, NoRet, Err("TypeError", "not_a_product"), i)
         ELSE IF ~item.qty_is_int \/ item.quantity <= 0
         THEN OrderResult(prods, NoRet, Err("ValueError", "quantity_not_positive_int"), i)
         ELSE LET r == buy(prods[item.product], item.quantity)
                  after == [prods EXCEPT ![item.product] = r.self]
              IN IF r.err # NoErr
                 THEN OrderResult(after, NoRet,
                                  [type |-> "Exception", msg |-> "order_failed",
                                   name |-> prods[item.product].name,
                                   cause |-> r.err.msg], i)
                 ELSE order_loop(after, shopping_list, i + 1,
                                 total_order_price + r.ret)

\* order that puts the products back when a buy fails
Store_order_rollback(prods, is_list, shopping_list) ==
    IF ~is_list
    THEN OrderResult(prods, NoRet, Err("TypeError", "not_a_list"), 0)
    ELSE LET r == order_loop(prods, shopping_list, 1, 0) IN
         IF r.err.msg = "order_failed" THEN [r EXCEPT !.products = prods] ELSE r

\* order that looks at every item before it buys the first
Store_order_validate_first(prods, is_list, shopping_list) ==
    IF ~is_list
    THEN OrderResult(prods, NoRet, Err("TypeError", "not_a_list"), 0)
    ELSE LET r == order_loop(prods, shopping_list, 1, 0) IN
         IF r.err.type \in {"ValueError", "TypeError"}
         THEN [r EXCEPT !.products = prods] ELSE r

Store_order(prods, is_list, shopping_list) ==
    IF ~is_list
    THEN OrderResult(prods, NoRet, Err("TypeError", "not_a_list"), 0)
    ELSE order_loop(prods, shopping_list, 1, 0)

\* the store's list self.products is a sequence of references (slots); the
\* operators below take it as held and return it as the call leaves it

\* add_product that skips a product the store holds already
Store_add_product_once(held, product) ==
    IF product \notin Slots THEN Raise(held, Err("TypeError", "not_a_product"))
    ELSE IF \E i \in 1 .. Len(held) : held[i] = product THEN Ok(held, NoRet)
    ELSE Ok(Append(held, product), NoRet)

\* Store.__init__: self.products = product_list binds the attribute to the
\* list object the caller passed; no copy is made, so the list of the store
\* and the list of the caller are one object
Store_init(is_list, product_list) ==
    IF ~is_list THEN Raise([products |-> <<>>, is_callers_list |-> FALSE],
                           Err("TypeError", "not_a_list"))
    ELSE Ok([products |-> product_list, is_callers_list |-> TRUE], NoRet)

Store_add_product(held, product) ==
    IF product \notin Slots THEN Raise(held, Err("TypeError", "not_a_product"))
    ELSE Ok(Append(held, product), NoRet)

\* list.remove(x): index of the first element equal to x, 0 when there is
\* none (Product defines no __eq__, so equal means the same object)
RECURSIVE list_index(_, _, _)
list_index(held, product, i) ==
    IF i > Len(held) THEN 0
    ELSE IF held[i] = product THEN i
    ELSE list_index(held, product, i + 1)

\* remove_product that takes out every occurrence
Store_remove_product_all(prods, held, product) ==
    IF list_index(held, product, 1) = 0
    THEN Raise(held, [type |-> "ValueError", msg |-> "not_found",
                      name |-> prods[product].name, cause |-> "none"])
    ELSE Ok(SelectSeq(held, LAMBDA x : x # product), NoRet)

Store_remove_product(prods, held, product) ==
    LET i == list_index(held, product, 1) IN
    IF i = 0
    THEN Raise(held, [type |-> "ValueError", msg |-> "not_found",
                      name |-> prods[product].name, cause |-> "none"])
    ELSE Ok(SubSeq(held, 1, i - 1) \o SubSeq(held, i + 1, Len(held)), NoRet)

RECURSIVE total_quantity_loop(_, _, _, _)
total_quantity_loop(prods, held, i, total_quantity) ==
    IF i > Len(held) THEN total_quantity
    ELSE total_quantity_loop(prods, held, i + 1,
                             total_quantity + get_quantity(prods[held[i]]))

\* get_total_quantity that counts the active products only
Store_get_total_quantity_active(prods, held) ==
    total_quantity_loop(prods, SelectSeq(held, LAMBDA x : is_active(prods[x])), 1, 0)

Store_get_total_quantity(prods, held) == total_quantity_loop(prods, held, 1, 0)

RECURSIVE active_products_loop(_, _, _, _)
active_products_loop(prods, held, i, active_products) ==
    IF i > Len(held) THEN active_products
    ELSE active_products_loop(prods, held, i + 1,
             IF is_active(prods[held[i]]) THEN Append(active_products, held[i])
             ELSE active_products)

\* get_all_products that asks for stock on hand instead of is_active()
Store_get_all_products_in_stock(prods, held) ==
    SelectSeq(held, LAMBDA x : get_quantity(prods[x]) > 0)

Store_get_all_products(prods, held) == active_products_loop(prods, held, 1, <<>>)

\* ------------------------------------------------------------ transitions
\* last: the most recent call, its arguments and its outcome
Last(op, slot, arg, ret, err, at, changed) ==
    [op |-> op, slot |-> slot, arg |-> arg, ret |-> ret, err |-> err,
     at |-> at, changed |-> changed, listed |-> <<>>,
     promotion |-> NoPromotionObject]

\* the list main.py hands to Store: the three objects, in this order
product_list == <<1, 2, 3>>

\* the objects main.py builds (one of each class), with valid arguments
Construct(s, quantity, maximum) ==
    CASE ClassOf(s) = "Product" -> Product_init(NameOf(s), PriceOf(s), quantity)
      [] ClassOf(s) = "LimitedProduct" ->
             LimitedProduct_init(NameOf(s), PriceOf(s), quantity, maximum)
      [] ClassOf(s) = "NonStockedProduct" -> NonStockedProduct_init(NameOf(s), PriceOf(s))

Init ==
    /\ \E qs \in [Slots -> 0 .. MaxQty], m \in Maxima :
          products = [s \in Slots |-> Construct(s, qs[s], m).self]
    /\ last = Last("init", 0, 0, NoRet, NoErr, 0, FALSE)
    /\ store = product_list

Call(op, s, arg, r) ==
    /\ products' = [products EXCEPT ![s] = r.self]
    /\ last' = Last(op, s, arg, r.ret, r.err, 0, r.self # products[s])
    /\ UNCHANGED store

DoBuy(s, q) == Call("buy", s, q, buy(products[s], q))

DoSetQuantity(s, q) == Call("set_quantity", s, q, set_quantity(products[s], q))

DoActivate(s) == Call("activate", s, 0, activate(products[s]))

DoDeactivate(s) == Call("deactivate", s, 0, deactivate(products[s]))

DoSetPromotion(s, promotion) ==
    Call("set_promotion", s, 0, set_promotion(products[s], promotion))

DoAssignQuantity(s, n) ==
    Call("assign_quantity", s, n, assign_quantity(products[s], n))

\* arguments a constructor call may be given, valid or not
NameArgs(s) == {"", NameOf(s)}
PriceArgs(s) == {0 - 100, 0, PriceOf(s)}
MaximumArgs(s) == IF ClassOf(s) = "LimitedProduct" THEN {0} \cup Maxima ELSE {NoAttr}
QuantityArgs(s) == IF ClassOf(s) = "NonStockedProduct" THEN {0} ELSE QtyArgs

\* the constructor of the class of slot s, called with these arguments
New(s, name, price, quantity, maximum) ==
    CASE ClassOf(s) = "Product" -> Product_init(name, price, quantity)
      [] ClassOf(s) = "LimitedProduct" -> LimitedProduct_init(name, price, quantity, maximum)
      [] ClassOf(s) = "NonStockedProduct" -> NonStockedProduct_init(name, price)

\* p = Class(name, price, ...) for the class of slot s: when the constructor
\* raises, the assignment does not happen and the slot keeps its object
ConstructorArgs(name, price, quantity, maximum) ==
    [name |-> name, price |-> price, quantity |-> quantity, maximum |-> maximum]

DoConstruct(s, name, price, quantity, maximum) ==
    LET r == New(s, name, price, quantity, maximum)
        after == IF r.err = NoErr THEN r.self ELSE products[s]
    IN
    /\ products' = [products EXCEPT ![s] = after]
    /\ last' = Last("construct", s, ConstructorArgs(name, price, quantity, maximum),
                    r.self, r.err, 0, after # products[s])
    /\ UNCHANGED store

\* a call on the store: it leaves every product as it is
StoreCall(op, product, r, listed) ==
    /\ store' = r.self
    /\ last' = [Last(op, product, 0, r.ret, r.err, 0, r.self # store)
                  EXCEPT !.listed = listed]
    /\ UNCHANGED products

\* most entries the store's list is let grow to
MaxHeld == MaxItems + 1

DoAddProduct(product) ==
    /\ product \in Slots => Len(store) < MaxHeld
    /\ StoreCall("add_product", product, Store_add_product(store, product), <<>>)

DoRemoveProduct(product) ==
    StoreCall("remove_product", product,
              Store_remove_product(products, store, product), <<>>)

DoGetTotalQuantity ==
    StoreCall("get_total_quantity", 0,
              Ok(store, Store_get_total_quantity(products, store)), <<>>)

DoGetAllProducts ==
    StoreCall("get_all_products", 0, Ok(store, NoRet),
              Store_get_all_products(products, store))

\* promotion.apply_promotion(product, quantity): the method computes a price
\* and assigns to nothing, neither of the product nor of the promotion
DoApplyPromotion(promotion, s, quantity) ==
    /\ last' = [Last("apply_promotion", s, quantity,
                     apply_promotion(promotion, products[s], quantity), NoErr, 0, FALSE)
                  EXCEPT !.promotion = promotion]
    /\ UNCHANGED <<products, store>>

\* arguments a promotion's constructor may be given, valid or not
PromotionNameArgs == {"", "promo"}
PercentArgs(cls) ==
    IF cls = "PercentDiscount" THEN {0 - 1, 0, Percent, 100, 101} ELSE {NoAttr}

\* Class(name) or PercentDiscount(name, percent): the new object, or the error
DoConstructPromotion(cls, name, percent) ==
    LET r == CASE cls = "PercentDiscount" -> PercentDiscount_init(name, percent)
               [] cls = "SecondHalfPrice" -> SecondHalfPrice_init(name)
               [] cls = "ThirdOneFree" -> ThirdOneFree_init(name)
    IN
    /\ last' = [Last(cls, 0, percent, NoRet, r.err, 0, FALSE)
                  EXCEPT !.promotion = r.self]
    /\ UNCHANGED <<products, store>>

\* the caller changes the list it made the Store from: what it does to its
\* list is done to the store's list when the two are one object
CallerChangesList(op, product, changed_list) ==
    /\ store' = IF Store_init(TRUE, store).self.is_callers_list
                THEN changed_list ELSE store
    /\ last' = Last(op, product, 0, NoRet, NoErr, 0, store' # store)
    /\ UNCHANGED products

\* product_list.append(product), after Store(product_list)
CallerAppend(product) ==
    /\ Len(store) < MaxHeld
    /\ CallerChangesList("list.append", product, Append(store, product))

\* product_list.pop(), after Store(product_list)
CallerPop ==
    /\ store # <<>>
    /\ CallerChangesList("list.pop", store[Len(store)], SubSeq(store, 1, Len(store) - 1))

DoOrder(is_list, shopping_list) ==
    LET r == Store_order(products, is_list, shopping_list) IN
    /\ products' = r.products
    /\ last' = Last("order", 0, 0, r.ret, r.err, r.at, r.products # products)
    /\ UNCHANGED store

DoOrderList == \E sl \in ShoppingLists : DoOrder(TRUE, sl)

DoOrderAnyList == \E sl \in AnyLists : DoOrder(TRUE, sl)

DoOrderNotAList == DoOrder(FALSE, <<>>)

\* The product methods and the orders the menu of main.py can place.
Next ==
    \/ \E s \in Slots, q \in QtyArgs : DoBuy(s, q)
    \/ \E s \in Slots, q \in QtyArgs : DoSetQuantity(s, q)
    \/ \E s \in Slots : DoActivate(s)
    \/ \E s \in Slots : DoDeactivate(s)
    \/ DoOrderList

Spec == Init /\ [][Next]_vars

\* Store.order alone, on every argument, over products that were constructed
\* and then possibly activated or deactivated by hand.
Toggle(how, self) ==
    CASE how = "activate" -> activate(self).self
      [] how = "deactivate" -> deactivate(self).self
      [] OTHER -> self

InitOrder ==
    /\ \E qs \in [Slots -> 0 .. MaxQty], m \in Maxima,
          tg \in [Slots -> {"none", "activate", "deactivate"}] :
          products = [s \in Slots |-> Toggle(tg[s], Construct(s, qs[s], m).self)]
    /\ last = Last("init", 0, 0, NoRet, NoErr, 0, FALSE)
    /\ store = product_list

NextOrder ==
    \/ DoOrderAnyList
    \/ DoOrderNotAList

SpecOrder == InitOrder /\ [][NextOrder]_vars

\* The product methods together with set_promotion.
NextPromo ==
    \/ \E s \in Slots, q \in QtyArgs : DoBuy(s, q)
    \/ \E s \in Slots, q \in QtyArgs : DoSetQuantity(s, q)
    \/ \E s \in Slots, p \in PromotionKinds \cup {NoPromotion} : DoSetPromotion(s, p)

SpecPromo == Init /\ [][NextPromo]_vars

\* the product methods together with the attribute assignment of the tests
NextAssign ==
    \/ \E s \in Slots, q \in QtyArgs : DoBuy(s, q)
    \/ \E s \in Slots, q \in QtyArgs : DoSetQuantity(s, q)
    \/ \E s \in Slots, n \in QtyArgs : DoAssignQuantity(s, n)

SpecAssign == Init /\ [][NextAssign]_vars

\* constructor calls with any arguments
NextConstruct ==
    \E s \in Slots :
        \E name \in NameArgs(s), price \in PriceArgs(s),
           quantity \in QuantityArgs(s), maximum \in MaximumArgs(s) :
            DoConstruct(s, name, price, quantity, maximum)

\* the objects of Init, before any further constructor call
InitConstruct ==
    /\ \E qs \in [Slots -> 0 .. MaxQty], m \in Maxima :
          products = [s \in Slots |-> Construct(s, qs[s], m).self]
    /\ last = Last("init", 0, ConstructorArgs("", 0, 0, NoAttr), NoObj, NoErr, 0, FALSE)
    /\ store = product_list

SpecConstruct == InitConstruct /\ [][NextConstruct]_vars

\* the store's own operations, between calls that switch products on and off
NextStore ==
    \/ \E p \in Slots \cup {NotAProduct} : DoAddProduct(p)
    \/ \E p \in Slots : DoRemoveProduct(p)
    \/ DoGetTotalQuantity
    \/ DoGetAllProducts
    \/ \E s \in Slots : DoActivate(s)
    \/ \E s \in Slots : DoDeactivate(s)

SpecStore == Init /\ [][NextStore]_vars

\* percents a PercentDiscount accepts, the bounds of the range among them
Percents == {0, 1, Percent, 50, 99, 100}

\* promotion objects of the three classes
Promotions ==
    {PercentDiscount_init("percent", pc).self : pc \in Percents}
        \cup {SecondHalfPrice_init("half").self, ThirdOneFree_init("third").self}

\* unit prices, a free product among them
UnitPrices(s) == {0, 100, PriceOf(s)}

\* products of every class and unit price, to which promotions are applied
InitApply ==
    /\ \E qs \in [Slots -> 0 .. MaxQty], m \in Maxima,
          ps \in [Slots -> UNION {UnitPrices(s) : s \in Slots}] :
          /\ \A s \in Slots : ps[s] \in UnitPrices(s)
          /\ products = [s \in Slots |-> New(s, NameOf(s), ps[s], qs[s], m).self]
    /\ last = Last("init", 0, 0, NoRet, NoErr, 0, FALSE)
    /\ store = product_list

NextApply ==
    \/ \E promotion \in Promotions, s \in Slots, quantity \in QtyArgs :
          DoApplyPromotion(promotion, s, quantity)
    \/ \E cls \in PromotionKinds :
          \E name \in PromotionNameArgs, percent \in PercentArgs(cls) :
              DoConstructPromotion(cls, name, percent)

SpecApply == InitApply /\ [][NextApply]_vars

\* ---------------------------------------------------------------- main.py
\* The program from its start: last.op is the statement that ran last.
\* Either main.py is run as the program, or it is imported and its caller
\* builds a catalogue and a Store and calls start().

\* the methods class Product defines (its subclasses add none)
ProductMethods ==
    {"__init__", "get_quantity", "set_quantity", "is_active", "activate",
     "deactivate", "show", "buy"}

\* obj.method(...) where the class of obj does not define the method
NoSuchMethod == Err("AttributeError", "no_attribute")

InitMain ==
    /\ products = [s \in Slots |-> NoObj]
    /\ store = <<>>
    /\ \E entry \in {"__main__", "import"} :
          last = Last(entry, 0, 0, NoRet, NoErr, 0, FALSE)

\* product_list = [...]: the catalogue of the main block, every stocked
\* product with stock
MainBuildCatalogue ==
    /\ last.op = "__main__"
    /\ \E m \in Maxima :
          products' = [s \in Slots |-> Construct(s, MaxQty, m).self]
    /\ last' = Last("product_list", 0, 0, NoRet, NoErr, 0, TRUE)
    /\ UNCHANGED store

\* the three promotion objects of the main block
MainCreatePromotions ==
    /\ last.op = "product_list"
    /\ \A cls \in PromotionKinds : Instance(cls) # NoPromotionObject
    /\ last' = Last("promotions", 0, 0, NoRet, NoErr, 0, FALSE)
    /\ UNCHANGED <<products, store>>

\* product_list[0].set_promotion(second_half_price) and the two calls after
\* it: the first call raises when Product has no such method
MainSetPromotions ==
    /\ last.op = "promotions"
    /\ IF "set_promotion" \in ProductMethods
       THEN /\ products' = [s \in Slots |->
                               set_promotion(products[s], "SecondHalfPrice").self]
            /\ last' = Last("set_promotion", product_list[1], 0, NoRet, NoErr, 0, TRUE)
       ELSE /\ products' = products
            /\ last' = Last("set_promotion", product_list[1], 0, NoRet,
                            NoSuchMethod, 0, FALSE)
    /\ UNCHANGED store

\* except Exception as ex: the message is printed and the program ends
MainExcept ==
    /\ last.op = "set_promotion"
    /\ last.err # NoErr
    /\ last' = Last("except", 0, 0, NoRet, last.err, 0, FALSE)
    /\ UNCHANGED <<products, store>>

\* a caller that imported main builds its own catalogue
CallerBuildCatalogue ==
    /\ last.op = "import"
    /\ \E qs \in [Slots -> 0 .. MaxQty], m \in Maxima :
          products' = [s \in Slots |-> Construct(s, qs[s], m).self]
    /\ last' = Last("caller_list", 0, 0, NoRet, NoErr, 0, TRUE)
    /\ UNCHANGED store

\* best_buy = store.Store(product_list)
MainCreateStore ==
    /\ last.op \in {"set_promotion", "caller_list"}
    /\ last.err = NoErr
    /\ store' = product_list
    /\ last' = Last("Store", 0, 0, NoRet, NoErr, 0, TRUE)
    /\ UNCHANGED products

\* start(best_buy): the menu loop is entered
MainStart ==
    /\ last.op = "Store"
    /\ last' = Last("start", 0, 0, NoRet, NoErr, 0, FALSE)
    /\ UNCHANGED <<products, store>>

\* the loop of start() waits for the next choice
InMenu == last.op \in {"start", "get_all_products", "get_total_quantity", "order"}

MenuList == InMenu /\ DoGetAllProducts

MenuTotal == InMenu /\ DoGetTotalQuantity

\* choice 3: the list is made of active products of the store with amounts
\* > 0 and is ordered only when it is not empty
MenuOrder ==
    /\ InMenu
    /\ \E sl \in ShoppingLists :
          /\ sl # <<>>
          /\ \A i \in 1 .. Len(sl) : is_active(products[sl[i].product])
          /\ DoOrder(TRUE, sl)

MenuQuit ==
    /\ InMenu
    /\ last' = Last("quit", 0, 0, NoRet, NoErr, 0, FALSE)
    /\ UNCHANGED <<products, store>>

NextMain ==
    \/ MainBuildCatalogue
    \/ MainCreatePromotions
    \/ MainSetPromotions
    \/ MainExcept
    \/ CallerBuildCatalogue
    \/ MainCreateStore
    \/ MainStart
    \/ MenuList
    \/ MenuTotal
    \/ MenuOrder
    \/ MenuQuit

SpecMain == InitMain /\ [][NextMain]_vars

\* lists a Store can be constructed from: the objects in any order, any of
\* them left out or given more than once
HeldLists == UNION {[1 .. n -> Slots] : n \in 0 .. MaxHeld}

\* a Store over any such list
InitHeld ==
    /\ \E qs \in [Slots -> 0 .. MaxQty], m \in Maxima :
          products = [s \in Slots |-> Construct(s, qs[s], m).self]
    /\ last = Last("init", 0, 0, NoRet, NoErr, 0, FALSE)
    /\ store \in HeldLists

\* orders and the total of the store, as choices 2 and 3 of the menu make them
NextHeld ==
    \/ DoOrderList
    \/ DoGetTotalQuantity

SpecHeld == InitHeld /\ [][NextHeld]_vars

\* a Store made from the caller's list, the calls on it, and the caller
\* going on to use its list
InitAlias ==
    /\ \E qs \in [Slots -> 0 .. MaxQty], m \in Maxima :
          products = [s \in Slots |-> Construct(s, qs[s], m).self]
    /\ last = Last("init", 0, 0, NoRet, NoErr, 0, FALSE)
    /\ store = Store_init(TRUE, product_list).self.products

NextAlias ==
    \/ \E p \in Slots \cup {NotAProduct} : DoAddProduct(p)
    \/ \E p \in Slots : DoRemoveProduct(p)
    \/ DoGetTotalQuantity
    \/ DoGetAllProducts
    \/ DoOrderList
    \/ \E p \in Slots : CallerAppend(p)
    \/ CallerPop

SpecAlias == InitAlias /\ [][NextAlias]_vars

\* ====================================================================
\* Properties
\* ====================================================================
Stocked(s) == ClassOf(s) \in {"Product", "LimitedProduct"}

\* what the call recorded in last' did to its receiver in this step
IsCall(op) == last'.op = op /\ last'.slot \in Slots
Before == products[last'.slot]
After == products'[last'.slot]
OthersUntouched == \A t \in Slots \ {last'.slot} : products'[t] = products[t]

\* C1: Product.buy(q) is all-or-nothing for every class of product: either
\* the call returns a price and the whole of q is taken from the stock of a
\* stocked product (a non-stocked product has no stock to take from), or it
\* raises, for one of the four reasons q <= 0, q above the purchase limit,
\* product inactive, q above the stock on hand, and the product is exactly
\* as it was before the call.  No other product is touched either way.
C1_BuyAllOrNothing ==
    [][IsCall("buy") =>
         /\ OthersUntouched
         /\ IF last'.err = NoErr
            THEN /\ last'.ret # NoRet
                 /\ After.quantity =
                      IF Stocked(last'.slot) THEN Before.quantity - last'.arg
                      ELSE Before.quantity
            ELSE /\ After = Before
                 /\ \/ last'.arg <= 0
                    \/ (ClassOf(last'.slot) = "LimitedProduct"
                          /\ last'.arg > Before.maximum)
                    \/ ~Before.active
                    \/ last'.arg > Before.quantity]_vars

\* a buy that failed for lack of stock left the remaining stock in place
C1_Witness ==
    /\ last.op = "buy"
    /\ last.err.msg = "not_enough_stock"
    /\ products[last.slot].quantity > 0
    /\ last.arg > products[last.slot].quantity

\* C2: the quantity of a stocked product (standard or limited) is never
\* negative, whatever calls of set_quantity, buy and Store.order were made on
\* the constructed products and whether they succeeded or failed.
C2_QuantityNonNegative ==
    \A s \in Slots : Stocked(s) => products[s].quantity >= 0

\* set_quantity(-1) was rejected on a stocked product whose quantity is 0
C2_Witness ==
    /\ last.op = "set_quantity"
    /\ last.arg < 0
    /\ last.err.msg = "negative_quantity"
    /\ Stocked(last.slot)
    /\ products[last.slot].quantity = 0

\* C3 (as claimed): in every reachable state is_active() equals the rule of
\* the class: quantity > 0 for a standard or limited product, true for a
\* non-stocked product.
C3_ActiveMatchesRule ==
    \A s \in Slots :
        is_active(products[s]) = (IF Stocked(s) THEN products[s].quantity > 0 ELSE TRUE)

\* -------------------------------------------------- Store.order, reference
WellFormed(item) ==
    item.is_pair /\ item.product \in Slots /\ item.qty_is_int /\ item.quantity > 0

\* units of the product in slot s asked for by the first k items
RECURSIVE Units(_, _, _)
Units(sl, k, s) ==
    IF k = 0 THEN 0
    ELSE Units(sl, k - 1, s) + (IF sl[k].product = s THEN sl[k].quantity ELSE 0)

\* the products once the first k items were bought: the stock of a stocked
\* product is down by the units bought and its active flag follows the stock
AfterItems(prods, sl, k) ==
    [s \in Slots |->
        IF Stocked(s) /\ Units(sl, k, s) > 0
        THEN [prods[s] EXCEPT !.quantity = prods[s].quantity - Units(sl, k, s),
                              !.active = (prods[s].quantity - Units(sl, k, s) > 0)]
        ELSE prods[s]]

\* the buy of item i, made on the products the items before it left
BuyOf(prods, sl, i) ==
    buy(AfterItems(prods, sl, i - 1)[sl[i].product], sl[i].quantity)

\* the items 1..k are well-formed, the buys of 1..k-1 succeed
BoughtUpTo(prods, sl, k) ==
    /\ \A i \in 1 .. k : WellFormed(sl[i])
    /\ \A i \in 1 .. (k - 1) : BuyOf(prods, sl, i).err = NoErr

RECURSIVE SumOfBuys(_, _, _)
SumOfBuys(prods, sl, k) ==
    IF k = 0 THEN 0 ELSE SumOfBuys(prods, sl, k - 1) + BuyOf(prods, sl, k).ret

\* C4: Store.order has no rollback.  In every reachable state and for every
\* shopping list: if item k is the first whose buy fails, the call raises an
\* Exception that names the product of item k, the products are left as the
\* buys of the items before k made them (stock down, active flag updated) and
\* nothing is changed by item k or a later one.
C4_OrderNoRollback ==
    \A sl \in AnyLists : \A k \in 1 .. Len(sl) :
        (BoughtUpTo(products, sl, k) /\ BuyOf(products, sl, k).err # NoErr) =>
            LET r == Store_order(products, TRUE, sl) IN
            /\ r.err.type = "Exception"
            /\ r.err.msg = "order_failed"
            /\ r.err.name = products[sl[k].product].name
            /\ r.at = k
            /\ r.products = AfterItems(products, sl, k - 1)

\* an order of two items failed on its second item, B, after its first item
\* had emptied A
C4_Witness ==
    /\ last.op = "order"
    /\ last.at = 2
    /\ last.err.msg = "order_failed"
    /\ last.err.name = "B"
    /\ last.changed
    /\ products[1].quantity = 0
    /\ ~products[1].active

\* C5: in every reachable state and for every shopping list of valid items
\* whose buys all succeed when made one after the other in list order,
\* Store.order raises nothing, leaves each product down by the quantities
\* ordered of it, and returns the sum of the prices the buys return, which is
\* not negative.
C5_OrderSucceeds ==
    \A sl \in AnyLists :
        (BoughtUpTo(products, sl, Len(sl)) /\
         \A i \in 1 .. Len(sl) : BuyOf(products, sl, i).err = NoErr) =>
            LET r == Store_order(products, TRUE, sl) IN
            /\ r.err = NoErr
            /\ r.products = AfterItems(products, sl, Len(sl))
            /\ r.ret = SumOfBuys(products, sl, Len(sl))
            /\ r.ret >= 0

\* an order of one A and one C went through and took the last A
C5_Witness ==
    /\ last.op = "order"
    /\ last.err = NoErr
    /\ last.changed
    /\ last.ret = PriceOf(1) + PriceOf(3)
    /\ products[1].quantity = 0
    /\ ~products[1].active

\* ------------------------------------------------------------ prices
\* the price the specification asks buy to return
PriceDue(self, quantity) ==
    IF self.promotion = NoPromotion THEN self.price * quantity
    ELSE apply_promotion(Instance(self.promotion), self, quantity)

\* C6 (as claimed): a successful buy(q) returns the promotion's price for
\* (product, q) when a promotion is set on the product, and unit price x q
\* when none is set, for all three classes of product.  (buy changes neither
\* the price nor the promotion, so the product after the call supplies both.)
C6_BuyReturnsPromotionPrice ==
    (last.op = "buy" /\ last.err = NoErr) =>
        last.ret = PriceDue(products[last.slot], last.arg)

\* C7: a successful buy(q) on a stocked product with quantity n and no
\* promotion was made with 0 < q <= n on an active product, leaves the
\* quantity at exactly n - q, returns price x q, and leaves the product
\* active iff n - q > 0.
C7_BuyDecrementsStock ==
    [][(IsCall("buy") /\ Stocked(last'.slot) /\ last'.err = NoErr
          /\ Before.promotion = NoPromotion) =>
         /\ 0 < last'.arg
         /\ last'.arg <= Before.quantity
         /\ Before.active
         /\ After.quantity = Before.quantity - last'.arg
         /\ last'.ret = Before.price * last'.arg
         /\ After.active = (Before.quantity - last'.arg > 0)]_vars

\* a buy took the whole remaining stock: quantity 0, product inactive
C7_Witness ==
    /\ last.op = "buy"
    /\ last.err = NoErr
    /\ Stocked(last.slot)
    /\ last.arg = MaxQty
    /\ last.ret = PriceOf(last.slot) * MaxQty
    /\ products[last.slot].quantity = 0
    /\ ~products[last.slot].active

\* C8: buy(q) on a limited product with q > maximum raises the purchase-limit
\* error, whatever the stock and whether or not the product is active, and
\* leaves the product unchanged.
C8_LimitCheckedFirst ==
    [][(IsCall("buy") /\ ClassOf(last'.slot) = "LimitedProduct"
          /\ last'.arg > Before.maximum) =>
         /\ last'.err.type = "Exception"
         /\ last'.err.msg = "maximum_exceeded"
         /\ After = Before]_vars

\* the limit stopped a buy on a deactivated limited product that had the
\* stock to cover it
C8_Witness ==
    /\ last.op = "buy"
    /\ ClassOf(last.slot) = "LimitedProduct"
    /\ last.arg > products[last.slot].maximum
    /\ last.err.msg = "maximum_exceeded"
    /\ ~products[last.slot].active
    /\ products[last.slot].quantity >= last.arg

\* C9 (as claimed): buy(q) with q > 0 on a stocked product that is not active
\* raises the inactive-product error; buy(q) on an active stocked product
\* with q above the quantity on hand raises the insufficient-stock error.
C9_InactiveThenStock ==
    [][(IsCall("buy") /\ Stocked(last'.slot) /\ last'.arg > 0) =>
         /\ ~Before.active => last'.err.msg = "inactive"
         /\ (Before.active /\ last'.arg > Before.quantity) =>
                last'.err.msg = "not_enough_stock"]_vars

\* q is within the purchase limit of the product in slot s, if it has one
WithinLimit(s, self, q) == ClassOf(s) = "LimitedProduct" => q <= self.maximum

\* C9 (amended): as claimed, for a quantity within the purchase limit when the
\* product is a limited one.
C9_InactiveThenStockWithinLimit ==
    [][(IsCall("buy") /\ Stocked(last'.slot) /\ last'.arg > 0
          /\ WithinLimit(last'.slot, Before, last'.arg)) =>
         /\ ~Before.active =>
                (last'.err.type = "Exception" /\ last'.err.msg = "inactive")
         /\ (Before.active /\ last'.arg > Before.quantity) =>
                (last'.err.type = "Exception" /\ last'.err.msg = "not_enough_stock")]_vars

\* a product whose quantity is 0 refused a buy as inactive
C9_Witness ==
    /\ last.op = "buy"
    /\ last.arg > 0
    /\ Stocked(last.slot)
    /\ last.err.msg = "inactive"
    /\ products[last.slot].quantity = 0
    /\ ~products[last.slot].active

\* C10: the quantity of a non-stocked product is 0 in every reachable state;
\* set_quantity(n) on it raises nothing for any n, and neither it nor buy(q)
\* moves the quantity off 0.
C10_NonStockedQuantityZero ==
    /\ \A s \in Slots : ~Stocked(s) => get_quantity(products[s]) = 0
    /\ (last.op = "set_quantity" /\ ~Stocked(last.slot)) =>
           (last.err = NoErr /\ ~last.changed)
    /\ (last.op = "buy" /\ ~Stocked(last.slot)) => ~last.changed

\* set_quantity(-1) on the non-stocked product went through without an error
C10_Witness ==
    /\ last.op = "set_quantity"
    /\ ~Stocked(last.slot)
    /\ last.arg < 0
    /\ last.err = NoErr
    /\ products[last.slot].quantity = 0

\* C11: buy(q) with q > 0 on a non-stocked product succeeds in every
\* reachable state of that product, whatever was called on it before (a
\* deactivate included): it raises nothing and returns price x q.
C11_NonStockedAlwaysBuyable ==
    [][(IsCall("buy") /\ ~Stocked(last'.slot) /\ last'.arg > 0) =>
         /\ last'.err = NoErr
         /\ last'.ret = Before.price * last'.arg
         /\ After = Before]_vars

\* a deactivated non-stocked product was bought
C11_Witness ==
    /\ last.op = "buy"
    /\ ~Stocked(last.slot)
    /\ last.arg > 0
    /\ last.err = NoErr
    /\ last.ret = PriceOf(last.slot) * last.arg
    /\ ~products[last.slot].active

\* an item the order must reject: not a pair, or a quantity that is not positive
Malformed(item) ==
    ~item.is_pair \/ (item.qty_is_int /\ item.quantity <= 0)

\* C12: Store.order fails with a validation error (ValueError) whenever its
\* argument is not a list, or some item of the list is not a pair or has a
\* quantity <= 0, at whatever position and whatever the other items are.
C12_OrderRejectsMalformed ==
    /\ Store_order(products, FALSE, <<>>).err.type = "ValueError"
    /\ \A sl \in AnyLists :
         (\E i \in 1 .. Len(sl) : Malformed(sl[i])) =>
             Store_order(products, TRUE, sl).err.type = "ValueError"

\* C13: product.quantity = n on a stocked product behaves like the quantity
\* setter: n < 0 fails with ValueError and leaves the product unchanged,
\* n = 0 makes the product inactive, so that a following buy fails as
\* inactive, and n > 0 makes it active.
C13_AssignmentLikeSetter ==
    [][(IsCall("assign_quantity") /\ Stocked(last'.slot)) =>
         IF last'.arg < 0
         THEN last'.err.type = "ValueError" /\ After = Before
         ELSE /\ last'.err = NoErr
              /\ After.quantity = last'.arg
              /\ After.active = (last'.arg > 0)
              /\ (last'.arg = 0 => Product_buy(After, 1).err.msg = "inactive")]_vars

\* what set_quantity(n) does to a stocked product: n < 0 is refused with
\* ValueError and nothing changes, n >= 0 becomes the quantity and the
\* product is active exactly when n > 0
SetterOnStocked ==
    IF last'.arg < 0
    THEN last'.err.type = "ValueError" /\ After = Before
    ELSE /\ last'.err = NoErr
         /\ After.quantity = last'.arg
         /\ After.active = (last'.arg > 0)

\* C14: on every product set_quantity(n) with n < 0 fails with ValueError
\* and leaves quantity and active status as they were; on a stocked product
\* set_quantity(n) with n >= 0 sets the quantity to n and active to (n > 0).
C14_SetterRejectsNegative ==
    [][IsCall("set_quantity") =>
         /\ last'.arg < 0 => (last'.err.type = "ValueError" /\ After = Before)
         /\ Stocked(last'.slot) => SetterOnStocked]_vars

\* C14, amended: the refusal of n < 0 holds on stocked products only; on a
\* non-stocked product set_quantity(n) raises nothing and changes nothing,
\* for negative n as for any other.
C14_SetterRejectsNegativeOnStocked ==
    [][IsCall("set_quantity") =>
         IF Stocked(last'.slot) THEN SetterOnStocked
         ELSE last'.err = NoErr /\ After = Before]_vars

\* a negative quantity was refused on a stocked product that had stock
C14_Witness ==
    /\ last.op = "set_quantity"
    /\ Stocked(last.slot)
    /\ last.arg < 0
    /\ last.err.type = "ValueError"
    /\ products[last.slot].quantity > 0
    /\ products[last.slot].active

\* the constructor call recorded in last' returned a new object, which is
\* active by the rule of its class
Constructed ==
    /\ last'.err = NoErr
    /\ After = last'.ret
    /\ After.cls = ClassOf(last'.slot)
    /\ After.name = last'.arg.name
    /\ After.price = last'.arg.price
    /\ Stocked(last'.slot) => After.quantity = last'.arg.quantity
    /\ is_active(After) = (IF Stocked(last'.slot) THEN last'.arg.quantity > 0 ELSE TRUE)

\* the constructor call recorded in last' raised ValueError and made no object
NotConstructed ==
    /\ last'.err.type = "ValueError"
    /\ last'.ret = NoObj
    /\ After = Before

\* C15: a constructor called with a non-empty name, price >= 0 and quantity
\* >= 0 succeeds, and the new product is active exactly when quantity > 0
\* (standard, limited) or always (non-stocked); called with an empty name, a
\* negative price or a negative quantity it raises ValueError and no product
\* is made.
C15_ConstructionValidates ==
    [][IsCall("construct") =>
         IF last'.arg.name # "" /\ last'.arg.price >= 0 /\ last'.arg.quantity >= 0
         THEN Constructed
         ELSE NotConstructed]_vars

\* C15, amended: for a limited product the maximum must be positive as
\* well; with maximum <= 0 the constructor raises ValueError whatever the
\* other arguments are.
C15_ConstructionValidatesMaximum ==
    [][IsCall("construct") =>
         IF /\ last'.arg.name # "" /\ last'.arg.price >= 0 /\ last'.arg.quantity >= 0
            /\ ClassOf(last'.slot) = "LimitedProduct" => last'.arg.maximum > 0
         THEN Constructed
         ELSE NotConstructed]_vars

\* a limited product was constructed with quantity 0 and is not active
C15_Witness ==
    /\ last.op = "construct"
    /\ ClassOf(last.slot) = "LimitedProduct"
    /\ last.err = NoErr
    /\ last.arg.quantity = 0
    /\ products[last.slot] = last.ret
    /\ ~is_active(products[last.slot])

\* the call on the store recorded in last'
IsStoreCall(op) == last'.op = op

\* how often the store's list held holds the product p
Occurrences(held, p) == Cardinality({i \in 1 .. Len(held) : held[i] = p})

\* the held entries that pass the test, in the order of the list
ActiveEntries(prods, held) == SelectSeq(held, LAMBDA x : prods[x].active)

\* C16: get_all_products() returns the held products whose is_active() is
\* true at the call, in the order of the store's list; the call changes
\* neither the list nor any product, so that a held product that is switched
\* on again is listed at the place it has in the store's list.
C16_ListingIsFilteredView ==
    [][IsStoreCall("get_all_products") =>
         /\ last'.err = NoErr
         /\ last'.listed = ActiveEntries(products, store)
         /\ store' = store
         /\ products' = products
         /\ \A s \in Slots :
              Store_get_all_products([products' EXCEPT ![s] = activate(@).self], store')
                  = SelectSeq(store, LAMBDA x : x = s \/ products[x].active)]_vars

\* a listing that leaves out a held product which is not active and shows one
\* that comes after it in the store's list
C16_Witness ==
    /\ last.op = "get_all_products"
    /\ \E i, j \in 1 .. Len(store) :
          /\ i < j
          /\ ~products[store[i]].active
          /\ products[store[j]].active
          /\ last.listed # <<>>
          /\ last.listed[Len(last.listed)] = store[j]
    /\ Len(last.listed) < Len(store)

\* sum over the products in S of quantity times the number of entries
RECURSIVE HeldQuantity(_, _, _)
HeldQuantity(S, prods, held) ==
    IF S = {} THEN 0
    ELSE LET s == CHOOSE x \in S : TRUE IN
         prods[s].quantity * Occurrences(held, s) + HeldQuantity(S \ {s}, prods, held)

\* C17: in every reachable state get_total_quantity() is the sum of the
\* quantities of all held products, active or not, a product held twice
\* counted twice, and the call changes nothing; a non-stocked product counts
\* 0, so adding one to the store leaves the total as it was.
C17_TotalIsSumOfHeld ==
    [][/\ Store_get_total_quantity(products, store) = HeldQuantity(Slots, products, store)
       /\ IsStoreCall("get_total_quantity") =>
            /\ last'.err = NoErr
            /\ last'.ret = HeldQuantity(Slots, products, store)
            /\ store' = store /\ products' = products
       /\ (IsStoreCall("add_product") /\ last'.slot \in Slots /\ ~Stocked(last'.slot)) =>
            /\ Occurrences(store', last'.slot) = Occurrences(store, last'.slot) + 1
            /\ Store_get_total_quantity(products', store')
                 = Store_get_total_quantity(products, store)]_vars

\* the total was asked for while the store held a product with stock twice
\* and a product with stock that is not active
C17_Witness ==
    /\ last.op = "get_total_quantity"
    /\ last.ret = HeldQuantity(Slots, products, store)
    /\ last.ret > 0
    /\ \E s \in Slots : Occurrences(store, s) = 2 /\ products[s].quantity > 0
    /\ \E s \in Slots : Occurrences(store, s) > 0 /\ products[s].quantity > 0
                          /\ ~products[s].active

\* C18: remove_product(p) takes out one entry, the first one that is p, and
\* leaves every other entry, later entries of p included, in place and in
\* order; when p is not held it raises the not-found ValueError and the
\* store's list stays as it was.
C18_RemoveFirstOccurrence ==
    [][IsStoreCall("remove_product") =>
         LET p == last'.slot IN
         /\ products' = products
         /\ IF Occurrences(store, p) = 0
            THEN /\ last'.err.type = "ValueError"
                 /\ last'.err.msg = "not_found"
                 /\ last'.err.name = NameOf(p)
                 /\ store' = store
            ELSE /\ last'.err = NoErr
                 /\ \E i \in 1 .. Len(store) :
                      /\ store[i] = p
                      /\ \A j \in 1 .. (i - 1) : store[j] # p
                      /\ store' = [k \in 1 .. (Len(store) - 1) |->
                                      IF k < i THEN store[k] ELSE store[k + 1]]]_vars

\* a product held twice was removed once: its later entry is still held,
\* behind an entry of another product
C18_Witness ==
    /\ last.op = "remove_product"
    /\ last.err = NoErr
    /\ last.changed
    /\ Len(store) = 2
    /\ store[2] = last.slot
    /\ store[1] # last.slot

\* C19: add_product(p) appends p behind the entries the store has, which
\* stay as and where they are, also when p is held already; when p is not a
\* Product it raises TypeError and the store's list stays as it was.
C19_AddAppends ==
    [][IsStoreCall("add_product") =>
         /\ products' = products
         /\ IF last'.slot \in Slots
            THEN /\ last'.err = NoErr
                 /\ Len(store') = Len(store) + 1
                 /\ \A i \in 1 .. Len(store) : store'[i] = store[i]
                 /\ store'[Len(store')] = last'.slot
            ELSE /\ last'.err.type = "TypeError"
                 /\ store' = store]_vars

\* a product the store held already was added again, behind another product
C19_Witness ==
    /\ last.op = "add_product"
    /\ last.err = NoErr
    /\ Len(store) = 3
    /\ store[3] = last.slot
    /\ store[1] = last.slot
    /\ store[2] # last.slot

\* C20: for each of the three promotions, every unit price >= 0 and every
\* quantity >= 1, the price the promotion gives is >= 0 and <= unit price x
\* quantity, and applying it changes neither the product nor the promotion.
C20_PromotionIsDiscount ==
    [][(IsCall("apply_promotion") /\ last'.arg >= 1) =>
         /\ last'.err = NoErr
         /\ last'.ret >= 0
         /\ last'.ret <= Before.price * last'.arg
         /\ last'.ret = apply_promotion(last'.promotion, After, last'.arg)
         /\ After = Before
         /\ products' = products]_vars

\* a promotion gave a price below the full price, and each of the three
\* classes can be the one
C20_Witness ==
    /\ last.op = "apply_promotion"
    /\ last.promotion.cls = "ThirdOneFree"
    /\ last.arg = 3
    /\ products[last.slot].price > 0
    /\ last.ret = 2 * products[last.slot].price
    /\ last.ret < 3 * products[last.slot].price

\* the price the promotion is to give for quantity q of a product of unit
\* price p: the larger half of the items in full and the other half at half
\* price; the full price less the free thirds; the full price less percent
\* hundredths of it
ReferencePrice(promotion, p, q) ==
    CASE promotion.cls = "SecondHalfPrice" -> (q - (q \div 2)) * p + (q \div 2) * (p \div 2)
      [] promotion.cls = "ThirdOneFree" -> (p * q) - ((q \div 3) * p)
      [] promotion.cls = "PercentDiscount" ->
             ((p * q * 100) - (p * q * promotion.percent)) \div 100

\* C21: for every unit price p and quantity q >= 1, SecondHalfPrice gives
\* ceil(q/2) x p + floor(q/2) x p/2, ThirdOneFree gives (q - floor(q/3)) x p
\* and PercentDiscount gives p x q x (1 - percent/100); PercentDiscount is
\* not constructed with a percent outside [0, 100]: the constructor raises
\* ValueError then.
C21_PromotionFormulas ==
    [][/\ (IsCall("apply_promotion") /\ last'.arg >= 1) =>
            last'.ret = ReferencePrice(last'.promotion, Before.price, last'.arg)
       /\ last'.op = "PercentDiscount" =>
            IF last'.arg < 0 \/ last'.arg > 100
            THEN last'.err.type = "ValueError" /\ last'.promotion = NoPromotionObject
            ELSE \/ last'.err.msg = "empty_name"
                 \/ /\ last'.err = NoErr
                    /\ last'.promotion.cls = "PercentDiscount"
                    /\ last'.promotion.percent = last'.arg]_vars

\* three items at 10.00 under SecondHalfPrice came to 25.00
C21_Witness ==
    /\ last.op = "apply_promotion"
    /\ last.promotion.cls = "SecondHalfPrice"
    /\ products[last.slot].price = 1000
    /\ last.arg = 3
    /\ last.ret = 2500

\* C22: when main.py is run, the catalogue is built, the promotions are
\* attached with set_promotion, the Store is constructed and start() is
\* entered: no statement of the main block raises, and the handler of the
\* main block is never reached.
C22_StartupReachesMenu ==
    /\ last.op = "set_promotion" => last.err = NoErr
    /\ last.op # "except"

\* the errors Store.order raises for an item it does not accept
ItemRejected(err) ==
    \/ err.type = "ValueError" /\ err.msg \in {"item_not_a_pair", "quantity_not_positive_int"}
    \/ err.type = "TypeError" /\ err.msg = "not_a_product"

\* C23: Store.order looks at an item only when it reaches it.  In every
\* reachable state and for every list: when the items before position k are
\* accepted and bought and item k is not a 2-tuple, has no Product first or
\* no positive integer second, the call raises the validation or type error
\* at k, the items before k are bought (stock down by their quantities) and
\* no item from k on is; and the call raises such an error in no other case.
C23_OrderValidatesLazily ==
    \A sl \in AnyLists :
        LET r == Store_order(products, TRUE, sl) IN
        /\ \A k \in 1 .. Len(sl) :
             (BoughtUpTo(products, sl, k - 1)
                /\ (k > 1 => BuyOf(products, sl, k - 1).err = NoErr)
                /\ ~WellFormed(sl[k])) =>
                 /\ ItemRejected(r.err)
                 /\ r.at = k
                 /\ r.products = AfterItems(products, sl, k - 1)
                 /\ \A s \in Slots :
                      r.products[s].quantity =
                          products[s].quantity
                              - (IF Stocked(s) THEN Units(sl, k - 1, s) ELSE 0)
        /\ ItemRejected(r.err) =>
             /\ r.at \in 1 .. Len(sl)
             /\ ~WellFormed(sl[r.at])
             /\ BoughtUpTo(products, sl, r.at - 1)

\* an order was rejected for its second item after its first item had been
\* bought and had taken stock
C23_Witness ==
    /\ last.op = "order"
    /\ ItemRejected(last.err)
    /\ last.at = 2
    /\ last.changed
    /\ \E s \in Slots : Stocked(s) /\ products[s].quantity < MaxQty

\* every product of the list is held by the store, once
HeldOnce(held, sl) ==
    \A i \in 1 .. Len(sl) : Occurrences(held, sl[i].product) = 1

\* the units the list asks of the products in S that are stocked
RECURSIVE StockedUnits(_, _)
StockedUnits(S, sl) ==
    IF S = {} THEN 0
    ELSE LET s == CHOOSE x \in S : TRUE IN
         (IF Stocked(s) THEN Units(sl, Len(sl), s) ELSE 0) + StockedUnits(S \ {s}, sl)

\* C24: in every reachable state and for every list whose products the
\* store holds once each: when Store.order succeeds on the list,
\* get_total_quantity() is afterwards lower by the quantities ordered of the
\* stocked products, the quantities ordered of non-stocked products count
\* for nothing, and a product that is not in the list keeps its quantity.
C24_OrderLowersTotal ==
    \A sl \in ShoppingLists :
        LET r == Store_order(products, TRUE, sl) IN
        (r.err = NoErr /\ HeldOnce(store, sl)) =>
            /\ Store_get_total_quantity(r.products, store)
                 = Store_get_total_quantity(products, store) - StockedUnits(Slots, sl)
            /\ \A s \in Slots :
                 (~Stocked(s) \/ Units(sl, Len(sl), s) = 0) =>
                     r.products[s].quantity = products[s].quantity

\* an order of one A (stocked) and one C (non-stocked) succeeded on a store
\* that holds every product once, and took from the stock
C24_Witness ==
    /\ last.op = "order"
    /\ last.err = NoErr
    /\ last.changed
    /\ last.ret = PriceOf(1) + PriceOf(3)
    /\ \A s \in Slots : Occurrences(store, s) = 1
    /\ Store_get_total_quantity(products, store) < 2 * MaxQty

\* a list of two or more accepted items, all of the product in slot s, each
\* within the purchase limit of the product if it has one
SameProduct(prods, sl, s) ==
    /\ Len(sl) >= 2
    /\ \A i \in 1 .. Len(sl) :
         /\ WellFormed(sl[i])
         /\ sl[i].product = s
         /\ WithinLimit(s, prods[s], sl[i].quantity)

C26_StoreChangesOnlyByAddRemove ==
    [][store' # store => last'.op \in {"add_product", "remove_product"}]_vars

====
